---- MODULE Spec2Model ----
(***************************************************************************)
(* Model of the VMware Fusion MCP server: the tool dispatcher              *)
(* (server.py: handle_call_tool and the three per-tool handlers), the      *)
(* module-level client with its scoped session (get_vmware_client,         *)
(* VMwareClient.__aenter__/__aexit__) and the three REST operations of     *)
(* VMwareClient (vmware_client.py).                                        *)
(*                                                                         *)
(* Dispatches run as asyncio tasks: the code between two awaits is atomic, *)
(* and the only await that really suspends is the HTTP round trip.  A      *)
(* dispatch is therefore two steps: Dispatch (entry up to the request      *)
(* being sent, or up to the envelope when nothing is sent) and Response    *)
(* (the HTTP outcome arrives; the rest of the handler runs to the          *)
(* envelope).                                                              *)
(*                                                                         *)
(* Texts are sequences of lines and a line is a sequence of string parts:  *)
(* an f-string is the concatenation of its parts.                          *)
(***************************************************************************)
EXTENDS Integers, Sequences, FiniteSets, TLC

\* ------------------------------------------------------------------ bounds
\* number of dispatches that may be in progress at the same time
NumCalls == 2
\* number of dispatches in one run of the process
MaxDispatch == 2

Calls == 1..NumCalls

\* ------------------------------------------------------- argument mappings
\* A value of an argument mapping: absent, a string, or a non-string.
Missing == [t |-> "missing", v |-> ""]
NonStr == [t |-> "int", v |-> "42"]
Str(s) == [t |-> "str", v |-> s]

ToolNames == {"list_vms", "get_vm_info", "power_vm", "unknown_tool"}
VmIdVals == {Missing, NonStr, Str(""), Str("vm1")}
ActionVals == {Missing, NonStr, Str("on"), Str("invalid")}

\* The argument mappings tried with each tool name.  Keys a tool does not
\* declare are ignored by it.
Arguments(name) ==
    CASE name = "power_vm" -> [vm_id : VmIdVals, action : ActionVals]
      [] name = "get_vm_info" -> [vm_id : VmIdVals, action : {Missing}]
      [] OTHER -> {[vm_id |-> Missing, action |-> Missing],
                   [vm_id |-> Str("vm1"), action |-> Str("on")]}

\* ------------------------------------------------------------- exceptions
\* An exception is its class and the parts of str(e).
NoFault == [type |-> "none", msg |-> <<>>]
Raise(type, msg) == [type |-> type, msg |-> msg]

\* Classes derived from Exception (all the classes the model raises).
ExceptionClasses ==
    {"Exception", "ValueError", "ValidationError", "RuntimeError",
     "JSONDecodeError", "OSError"}

\* pydantic: a declared `str` field is required and takes only a string.
FieldErrors(fields, arguments) ==
    LET Err(f) == IF arguments[f].t = "missing" THEN <<f, ": Field required; ">>
                  ELSE IF arguments[f].t # "str"
                       THEN <<f, ": Input should be a valid string; ">>
                       ELSE <<>>
        RECURSIVE Collect(_)
        Collect(i) == IF i > Len(fields) THEN <<>>
                      ELSE Err(fields[i]) \o Collect(i + 1)
    IN Collect(1)

ValidateParams(model, fields, arguments) ==
    LET errs == FieldErrors(fields, arguments)
    IN IF errs = <<>> THEN NoFault
       ELSE Raise("ValidationError",
                  <<"validation error for ", model, "; ">> \o errs)

GetVMInfoParams(arguments) ==
    ValidateParams("GetVMInfoParams", <<"vm_id">>, arguments)

PowerVMParams(arguments) ==
    ValidateParams("PowerVMParams", <<"vm_id", "action">>, arguments)

\* ------------------------------------------------------------ remote API
\* Response bodies, named; BodyText is response.text, BodyJson is what
\* response.json() returns when BodyParses, and response.json() raises
\* otherwise.  A VM summary is a mapping whose keys may be absent; a VM
\* detail is an ordered sequence of <<key, value>> entries whose value is a
\* scalar or a nested sequence of entries.
Scalar(s) == [t |-> "scalar", v |-> s, items |-> <<>>]
Mapping(items) == [t |-> "dict", v |-> "", items |-> items]

JsonBodies(op) ==
    CASE op = "list_vms" -> {"vms0", "vms2"}
      [] op = "get_vm_info" -> {"detail"}
      [] op = "power_vm" -> {"power_status", "power_state"}
      [] OTHER -> {}

BodyText(b) ==
    CASE b = "empty" -> ""
      [] b = "errtext" -> "Internal Server Error"
      [] OTHER -> b

BodyParses(b) == b \notin {"empty", "errtext"}

BodyJson(b) ==
    CASE b = "vms0" -> <<>>
      [] b = "vms2" -> <<[id |-> "vm1", path |-> "/path/to/vm1.vmx"],
                         [id |-> "vm2"]>>
      [] b = "detail" ->
            <<<<"id", Scalar("vm1")>>,
              <<"cpu", Mapping(<<<<"cores", Scalar("2")>>>>)>>>>
      [] b = "power_status" -> [status |-> "success"]
      [] b = "power_state" -> [power_state |-> "poweredOn"]

Response(status_code, body) ==
    [kind |-> "response", status_code |-> status_code, body |-> body,
     cause |-> ""]

\* What one HTTP call can end in: the transport fails (httpx.RequestError),
\* the I/O layer raises something else, or a response arrives.
NoOutcome == [kind |-> "none", status_code |-> 0, body |-> "", cause |-> ""]
Outcomes(op) ==
    {[kind |-> "transport", status_code |-> 0, body |-> "",
      cause |-> "Connection failed"],
     [kind |-> "unexpected", status_code |-> 0, body |-> "",
      cause |-> "unexpected I/O failure"]}
    \cup {Response(200, b) : b \in JsonBodies(op) \cup {"empty", "errtext"}}
    \cup {Response(204, "empty"), Response(404, "errtext"),
          Response(500, "errtext")}

\* response.raise_for_status() raises for every status outside 2xx
IsSuccess(status_code) == status_code \in 200..299

\* -------------------------------------------------------- Resource Client
base_url == "http://localhost:8697"

Returned(value) == [fault |-> NoFault, value |-> value]
Failed(e) == [fault |-> e, value |-> <<>>]

ConnectFailure(outcome) ==
    Raise("Exception",
          <<"Failed to connect to VMware Fusion API: ", outcome.cause>>)

APIError(outcome) ==
    Raise("Exception",
          <<"VMware Fusion API error: ", ToString(outcome.status_code),
            " - ", BodyText(outcome.body)>>)

VMNotFound(vm_id) == Raise("Exception", <<"VM with ID '", vm_id, "' not found">>)

\* An exception no except clause of the client names passes through it.
Unexpected(outcome) == Raise("RuntimeError", <<outcome.cause>>)
JSONDecodeError == Raise("JSONDecodeError", <<"Expecting value">>)

list_vms(outcome) ==
    IF outcome.kind = "transport" THEN Failed(ConnectFailure(outcome))
    ELSE IF outcome.kind = "unexpected" THEN Failed(Unexpected(outcome))
    ELSE IF ~IsSuccess(outcome.status_code) THEN Failed(APIError(outcome))
    ELSE IF ~BodyParses(outcome.body) THEN Failed(JSONDecodeError)
    ELSE Returned(BodyJson(outcome.body))

\* variant: no branch for 404
StatusError404_Generic(vm_id, outcome) == APIError(outcome)

StatusError404(vm_id, outcome) ==
    IF outcome.status_code = 404 THEN VMNotFound(vm_id) ELSE APIError(outcome)

get_vm_info(vm_id, outcome) ==
    IF outcome.kind = "transport" THEN Failed(ConnectFailure(outcome))
    ELSE IF outcome.kind = "unexpected" THEN Failed(Unexpected(outcome))
    ELSE IF ~IsSuccess(outcome.status_code)
         THEN Failed(StatusError404(vm_id, outcome))
    ELSE IF ~BodyParses(outcome.body) THEN Failed(JSONDecodeError)
    ELSE Returned(BodyJson(outcome.body))

valid_actions == <<"on", "off", "suspend", "pause", "unpause", "reset">>
ValidActions == {valid_actions[i] : i \in 1..Len(valid_actions)}

\* variant: the membership test left out
ActionAccepted_Any(action) == TRUE

ActionAccepted(action) == action \in ValidActions

InvalidAction(action) ==
    Raise("ValueError",
          <<"Invalid action '", action, "'. Valid actions: ",
            "['on', 'off', 'suspend', 'pause', 'unpause', 'reset']">>)

\* the part of power_vm after the POST was awaited
power_vm(vm_id, action, outcome) ==
    IF outcome.kind = "transport" THEN Failed(ConnectFailure(outcome))
    ELSE IF outcome.kind = "unexpected" THEN Failed(Unexpected(outcome))
    ELSE IF ~IsSuccess(outcome.status_code)
         THEN Failed(StatusError404(vm_id, outcome))
    ELSE IF BodyText(outcome.body) = ""
         THEN Returned([status |-> "success", action |-> action])
    ELSE IF ~BodyParses(outcome.body) THEN Failed(JSONDecodeError)
    ELSE Returned(BodyJson(outcome.body))

\* The request each operation sends.
Request(name, arguments) ==
    CASE name = "list_vms" ->
            [method |-> "GET", url |-> <<base_url, "/fusionsvc/vms">>,
             action |-> ""]
      [] name = "get_vm_info" ->
            [method |-> "GET",
             url |-> <<base_url, "/fusionsvc/vms/", arguments.vm_id.v>>,
             action |-> ""]
      [] name = "power_vm" ->
            [method |-> "POST",
             url |-> <<base_url, "/fusionsvc/vms/", arguments.vm_id.v, "/",
                       arguments.action.v>>,
             action |-> arguments.action.v]

\* ------------------------------------------------------- Tool Dispatcher
\* CallToolResult: content text, structuredContent, isError.
NoStructured == [present |-> FALSE, v |-> <<>>]
Structured(v) == [present |-> TRUE, v |-> v]
NoResult == [is_error |-> FALSE, human_text |-> <<>>, structured |-> NoStructured]
Envelope(text, structured) ==
    [is_error |-> FALSE, human_text |-> text, structured |-> Structured(structured)]

\* except Exception as e: text = f"Error: {str(e)}", isError = True
ErrorEnvelope(e) ==
    [is_error |-> TRUE, human_text |-> <<<<"Error: ">> \o e.msg>>,
     structured |-> NoStructured]

\* variant: the except clause names only the classes the code raises itself
Catches_Declared(e) == e.type \in {"Exception", "ValueError"}

\* the except clause of handle_call_tool takes every subclass of Exception
Catches(e) == e.type \in ExceptionClasses

\* variant: the message does not name the tool
UnknownTool_Unnamed(name) == Raise("ValueError", <<"Unknown tool">>)

UnknownTool(name) == Raise("ValueError", <<"Unknown tool: ", name>>)

Sep50 == "=================================================="
Sep30 == "------------------------------"

\* vm.get(key, "Unknown")
Get(vm, key) == IF key \in DOMAIN vm THEN vm[key] ELSE "Unknown"

RECURSIVE VmLines(_, _)
VmLines(vms, i) ==
    IF i > Len(vms) THEN <<>>
    ELSE <<<<"ID: ", Get(vms[i], "id")>>, <<"Path: ", Get(vms[i], "path")>>,
           <<Sep30>>>> \o VmLines(vms, i + 1)

\* variant: the sequence is dropped from the payload
ListVmsStructured_Dropped(vms) == [vms |-> <<>>]

ListVmsStructured(vms) == IF Len(vms) # 0 THEN [vms |-> vms] ELSE [vms |-> <<>>]

\* the part of handle_list_vms after client.list_vms() returned
ListVmsResult(vms) ==
    Envelope(IF Len(vms) = 0 THEN <<<<"No VMs found in VMware Fusion.">>>>
             ELSE <<<<"VMware Fusion VMs:">>, <<Sep50>>>> \o VmLines(vms, 1),
             ListVmsStructured(vms))

\* str.title() on the keys the remote API sends
Title(key) ==
    CASE key = "id" -> "Id"
      [] key = "cpu" -> "Cpu"
      [] OTHER -> key

RECURSIVE SubLines(_, _)
SubLines(items, i) ==
    IF i > Len(items) THEN <<>>
    ELSE <<<<"  ", items[i][1], ": ", items[i][2].v>>>> \o SubLines(items, i + 1)

RECURSIVE InfoLines(_, _)
InfoLines(vm_info, i) ==
    IF i > Len(vm_info) THEN <<>>
    ELSE (IF vm_info[i][2].t = "dict"
          THEN <<<<Title(vm_info[i][1]), ":">>>> \o SubLines(vm_info[i][2].items, 1)
          ELSE <<<<Title(vm_info[i][1]), ": ", vm_info[i][2].v>>>>)
         \o InfoLines(vm_info, i + 1)

GetVmInfoStructured(vm_info) == vm_info

\* the part of handle_get_vm_info after client.get_vm_info() returned
GetVmInfoResult(vm_id, vm_info) ==
    Envelope(<<<<"VM Information for ID: ", vm_id>>, <<Sep50>>>>
             \o InfoLines(vm_info, 1),
             GetVmInfoStructured(vm_info))

PowerVmStructured(result) == result

\* the part of handle_power_vm after client.power_vm() returned
PowerVmResult(vm_id, action, result) ==
    Envelope(<<<<"Successfully performed '", action, "' action on VM ", vm_id>>
               \o (IF "status" \in DOMAIN result
                   THEN <<" - Status: ", result["status"]>> ELSE <<>>)>>,
             PowerVmStructured(result))

\* Which exception, if any, handle_call_tool raises before a handler runs.
Rejected(name, arguments) ==
    CASE name = "list_vms" -> NoFault
      [] name = "get_vm_info" -> GetVMInfoParams(arguments)
      [] name = "power_vm" -> PowerVMParams(arguments)
      [] OTHER -> UnknownTool(name)

\* The client operation a handler awaits, applied to the HTTP outcome.
ClientCall(name, arguments, outcome) ==
    CASE name = "list_vms" -> list_vms(outcome)
      [] name = "get_vm_info" -> get_vm_info(arguments.vm_id.v, outcome)
      [] name = "power_vm" ->
            power_vm(arguments.vm_id.v, arguments.action.v, outcome)

\* The envelope a handler builds from the value the client returned.
HandlerResult(name, arguments, value) ==
    CASE name = "list_vms" -> ListVmsResult(value)
      [] name = "get_vm_info" -> GetVmInfoResult(arguments.vm_id.v, value)
      [] name = "power_vm" ->
            PowerVmResult(arguments.vm_id.v, arguments.action.v, value)

\* power_vm checks the action before it touches the session
RaisedBeforeRequest(name, arguments) ==
    IF name = "power_vm" /\ ~ActionAccepted(arguments.action.v)
    THEN InvalidAction(arguments.action.v)
    ELSE NoFault

\* ------------------------------------------------------------------ state
VARIABLES
    vmware_client,   \* the module-level client: "None" or "VMwareClient"
    session,         \* state of its httpx.AsyncClient:
                     \*   "absent", "unopened", "opened", "closed"
    pc,              \* per dispatch: "idle", "awaiting", "done", "raised"
    call,            \* per dispatch: the tool name and argument mapping
    sent,            \* per dispatch: the HTTP requests it has issued
    remote,          \* per dispatch: the outcome of its HTTP call
    fault,           \* per dispatch: what the Resource Client raised
    result,          \* per dispatch: the envelope returned
    dispatchCount,   \* dispatches started
    httpCount        \* HTTP requests issued

vars == <<vmware_client, session, pc, call, sent, remote, fault, result,
          dispatchCount, httpCount>>

NoCall == [name |-> "", arguments |-> [vm_id |-> Missing, action |-> Missing]]

Init ==
    /\ vmware_client = "None"
    /\ session = "absent"
    /\ pc = [c \in Calls |-> "idle"]
    /\ call = [c \in Calls |-> NoCall]
    /\ sent = [c \in Calls |-> <<>>]
    /\ remote = [c \in Calls |-> NoOutcome]
    /\ fault = [c \in Calls |-> NoFault]
    /\ result = [c \in Calls |-> NoResult]
    /\ dispatchCount = 0
    /\ httpCount = 0

\* VMwareClient(): __init__ builds the httpx.AsyncClient, not yet used
get_vmware_client(client_session) ==
    IF vmware_client = "None" THEN "unopened" ELSE client_session

\* variant: the exit leaves the session as it is
aexit_Leak(client_session) == client_session

\* __aexit__: await self._client.aclose(), whatever the exit path
aexit(client_session) == "closed"

\* httpx refuses to send on a client that was closed
ClientHasBeenClosed ==
    Raise("RuntimeError",
          <<"Cannot send a request, as the client has been closed.">>)

\* variant: the request is sent a second time
Issue_Twice(request) == <<request, request>>

\* the requests one client operation issues
Issue(request) == <<request>>

\* handle_call_tool's try/except around everything it does
Finish(c, e, envelope) ==
    IF e = NoFault
    THEN /\ pc' = [pc EXCEPT ![c] = "done"]
         /\ result' = [result EXCEPT ![c] = envelope]
    ELSE IF Catches(e)
    THEN /\ pc' = [pc EXCEPT ![c] = "done"]
         /\ result' = [result EXCEPT ![c] = ErrorEnvelope(e)]
    ELSE /\ pc' = [pc EXCEPT ![c] = "raised"]
         /\ result' = [result EXCEPT ![c] = NoResult]

\* A new dispatch takes the first slot not in use (which task object runs a
\* dispatch makes no difference to the program).
Free(c) == pc[c] \in {"idle", "done"}

\* handle_call_tool from its entry to the first await that suspends: the
\* envelope, when the call is rejected or fails before anything is sent, or
\* the request on the wire.
Dispatch(c, name, arguments) ==
    /\ Free(c)
    /\ \A d \in Calls : d < c => ~Free(d)
    /\ dispatchCount < MaxDispatch
    /\ dispatchCount' = dispatchCount + 1
    /\ call' = [call EXCEPT ![c] = [name |-> name, arguments |-> arguments]]
    /\ remote' = [remote EXCEPT ![c] = NoOutcome]
    /\ LET rejected == Rejected(name, arguments)
           entered == get_vmware_client(session)
           early == RaisedBeforeRequest(name, arguments)
       IN IF rejected # NoFault
          THEN \* no handler ran, no client scope was entered
               /\ Finish(c, rejected, NoResult)
               /\ fault' = [fault EXCEPT ![c] = NoFault]
               /\ sent' = [sent EXCEPT ![c] = <<>>]
               /\ UNCHANGED <<vmware_client, session, httpCount>>
          ELSE /\ vmware_client' = "VMwareClient"
               /\ IF early # NoFault \/ entered = "closed"
                  THEN \* the client raises with nothing sent; scope exit
                       LET e == IF early # NoFault THEN early
                                ELSE ClientHasBeenClosed
                       IN /\ Finish(c, e, NoResult)
                          /\ fault' = [fault EXCEPT ![c] = e]
                          /\ sent' = [sent EXCEPT ![c] = <<>>]
                          /\ session' = aexit(entered)
                          /\ UNCHANGED httpCount
                  ELSE \* the request goes out; the task suspends
                       LET requests == Issue(Request(name, arguments))
                       IN /\ pc' = [pc EXCEPT ![c] = "awaiting"]
                          /\ sent' = [sent EXCEPT ![c] = requests]
                          /\ httpCount' = httpCount + Len(requests)
                          /\ session' = "opened"
                          /\ fault' = [fault EXCEPT ![c] = NoFault]
                          /\ UNCHANGED result

\* The HTTP call of dispatch c ends in `outcome`; the client operation
\* returns or raises, the handler builds its envelope, the client scope is
\* left and handle_call_tool returns.
Complete(c, outcome) ==
    /\ pc[c] = "awaiting"
    /\ LET name == call[c].name
           arguments == call[c].arguments
           r == ClientCall(name, arguments, outcome)
       IN /\ remote' = [remote EXCEPT ![c] = outcome]
          /\ fault' = [fault EXCEPT ![c] = r.fault]
          /\ Finish(c, r.fault,
                    IF r.fault = NoFault
                    THEN HandlerResult(name, arguments, r.value)
                    ELSE NoResult)
          /\ session' = aexit(session)
          /\ UNCHANGED <<vmware_client, call, sent, dispatchCount, httpCount>>

Next ==
    \/ \E c \in Calls, name \in ToolNames :
          \E arguments \in Arguments(name) : Dispatch(c, name, arguments)
    \/ \E c \in Calls :
          \E outcome \in Outcomes(call[c].name) : Complete(c, outcome)

Spec == Init /\ [][Next]_vars

\* ================================================================ claims
KnownTools == {"list_vms", "get_vm_info", "power_vm"}

\* the handler of dispatch c ran, so a client scope was entered
EnteredScope(c) ==
    /\ pc[c] # "idle"
    /\ call[c].name \in KnownTools
    /\ Rejected(call[c].name, call[c].arguments) = NoFault

\* C1: dispatch always ends in an envelope, never in a raised fault, whatever
\* the tool name, the arguments and the outcome of the HTTP call; and when
\* the Resource Client operation raised, the envelope has is_error = true
\* and the text "Error: " followed by the message of what was raised.
C1_DispatchNeverRaises ==
    \A c \in Calls :
        /\ pc[c] # "raised"
        /\ (pc[c] = "done" /\ fault[c] # NoFault) =>
              /\ result[c].is_error
              /\ result[c].human_text = <<<<"Error: ">> \o fault[c].msg>>
              /\ ~result[c].structured.present

C1_Witness ==
    \E c \in Calls :
        /\ pc[c] = "done"
        /\ remote[c].kind = "unexpected"
        /\ fault[c].type = "RuntimeError"
        /\ result[c].is_error

\* A call the tool's schema accepts, and an HTTP exchange (if any) in which
\* the remote API answered 2xx with the JSON the operation expects.
ValidCall(c) ==
    /\ EnteredScope(c)
    /\ call[c].name = "power_vm" => call[c].arguments.action.v \in ValidActions
    /\ call[c].name # "list_vms" => call[c].arguments.vm_id.v # ""

HealthyRemote(c) ==
    remote[c].kind = "response" =>
        /\ IsSuccess(remote[c].status_code)
        /\ \/ remote[c].body \in JsonBodies(call[c].name)
           \/ call[c].name = "power_vm" /\ remote[c].body = "empty"

\* C2: every entry into a client scope finds the session open or re-opens
\* it: no request is attempted on a session already closed, and a valid
\* call against a healthy remote API succeeds on every dispatch, the second
\* and later ones included.
C2_ReentryFindsSessionOpen ==
    \A c \in Calls :
        (pc[c] = "done" /\ ValidCall(c) /\ remote[c].kind # "transport"
            /\ remote[c].kind # "unexpected" /\ HealthyRemote(c)) =>
              /\ fault[c] # ClientHasBeenClosed
              /\ ~result[c].is_error

\* C3: no scope exit closes the shared session while another dispatch has
\* its request in flight on it (is still inside its client scope).
C3_NoCloseWhileInFlight ==
    \A c \in Calls : pc[c] = "awaiting" => session # "closed"

\* C4: power_vm with an action outside the six tokens raises the
\* invalid-argument error naming the value and sends nothing; every POST
\* that is sent carries one of the six tokens.
C4_OnlyValidActionsPosted ==
    \A c \in Calls :
        /\ (EnteredScope(c) /\ call[c].name = "power_vm"
              /\ call[c].arguments.action.v \notin ValidActions) =>
                 /\ pc[c] = "done"
                 /\ fault[c] = InvalidAction(call[c].arguments.action.v)
                 /\ fault[c].msg[2] = call[c].arguments.action.v
                 /\ sent[c] = <<>>
        /\ \A i \in 1..Len(sent[c]) :
              sent[c][i].method = "POST" => sent[c][i].action \in ValidActions

C4_Witness ==
    \E c \in Calls :
        /\ pc[c] = "done"
        /\ call[c].name = "power_vm"
        /\ call[c].arguments.vm_id = Str("vm1")
        /\ call[c].arguments.action = Str("invalid")
        /\ fault[c].type = "ValueError"
        /\ sent[c] = <<>>

\* C5 as stated: for a name outside the catalog the envelope has
\* is_error = true, the text exactly "Unknown tool: {name}", and nothing
\* is sent.
C5_UnknownToolTextExact ==
    \A c \in Calls :
        (pc[c] = "done" /\ call[c].name \notin KnownTools) =>
            /\ result[c].is_error
            /\ result[c].human_text = <<<<"Unknown tool: ", call[c].name>>>>
            /\ sent[c] = <<>>

\* C5 as amended: for a name outside the catalog the envelope has
\* is_error = true, the text "Error: Unknown tool: {name}", and nothing is
\* sent.
C5_UnknownToolEnvelope ==
    \A c \in Calls :
        (pc[c] # "idle" /\ call[c].name \notin KnownTools) =>
            /\ pc[c] = "done"
            /\ result[c].is_error
            /\ result[c].human_text =
                  <<<<"Error: ", "Unknown tool: ", call[c].name>>>>
            /\ sent[c] = <<>>

C5_Witness ==
    \E c \in Calls :
        /\ pc[c] = "done"
        /\ call[c].name = "unknown_tool"
        /\ result[c].is_error

\* The violations of a tool's schema that C6 lists.
ViolatesSchema(name, arguments) ==
    \/ /\ name \in {"get_vm_info", "power_vm"}
       /\ \/ arguments.vm_id.t # "str"
          \/ arguments.vm_id.v = ""
    \/ /\ name = "power_vm"
       /\ \/ arguments.action.t # "str"
          \/ arguments.action.v \notin ValidActions

\* C6: a dispatch of a known tool whose arguments violate the tool's schema
\* (vm_id missing, empty or not a string; action missing, not a string or
\* outside the six tokens) returns is_error = true and sends nothing.
C6_SchemaViolationSendsNothing ==
    \A c \in Calls :
        (pc[c] # "idle" /\ call[c].name \in KnownTools
            /\ ViolatesSchema(call[c].name, call[c].arguments)) =>
              /\ sent[c] = <<>>
              /\ pc[c] = "done"
              /\ result[c].is_error

\* C7: a failed HTTP call is classified by the operation and the outcome: a
\* transport failure gives "Failed to connect to VMware Fusion API" and the
\* cause for all three operations; a 404 on get_vm_info or power_vm gives
\* the not-found message naming the vm_id; every other non-2xx status, and
\* every non-2xx on list_vms, gives the message with the status code and
\* the body text.
C7_FailureClassified ==
    \A c \in Calls :
        pc[c] = "done" =>
            /\ remote[c].kind = "transport" =>
                  fault[c].msg = <<"Failed to connect to VMware Fusion API: ",
                                   remote[c].cause>>
            /\ (remote[c].kind = "response" /\ ~IsSuccess(remote[c].status_code)) =>
                  IF remote[c].status_code = 404 /\ call[c].name # "list_vms"
                  THEN fault[c].msg = <<"VM with ID '", call[c].arguments.vm_id.v,
                                        "' not found">>
                  ELSE fault[c].msg = <<"VMware Fusion API error: ",
                                        ToString(remote[c].status_code), " - ",
                                        BodyText(remote[c].body)>>

C7_Witness ==
    \E c \in Calls :
        /\ pc[c] = "done"
        /\ call[c].name = "get_vm_info"
        /\ remote[c].kind = "response"
        /\ remote[c].status_code = 404
        /\ fault[c].msg[1] = "VM with ID '"

\* the HTTP call of dispatch c was answered 2xx and the client returned
ClientReturned(c) ==
    /\ pc[c] = "done"
    /\ remote[c].kind = "response"
    /\ IsSuccess(remote[c].status_code)
    /\ fault[c] = NoFault

\* C8: when the client operation returned, the envelope has is_error = false
\* and the structured payload is the client's result untransformed: {vms:
\* the sequence} for list_vms, the detail mapping for get_vm_info, and for
\* power_vm the parsed body, or {status: "success", action} when the body
\* is empty.
C8_StructuredIsClientResult ==
    \A c \in Calls :
        ClientReturned(c) =>
            /\ ~result[c].is_error
            /\ result[c].structured.present
            /\ CASE call[c].name = "list_vms" ->
                      result[c].structured.v = [vms |-> BodyJson(remote[c].body)]
                 [] call[c].name = "get_vm_info" ->
                      result[c].structured.v = BodyJson(remote[c].body)
                 [] call[c].name = "power_vm" ->
                      IF remote[c].body = "empty"
                      THEN result[c].structured.v =
                              [status |-> "success",
                               action |-> call[c].arguments.action.v]
                      ELSE result[c].structured.v = BodyJson(remote[c].body)

C8_Witness ==
    \E c \in Calls :
        /\ ClientReturned(c)
        /\ call[c].name = "list_vms"
        /\ remote[c].body = "vms2"
        /\ Len(result[c].structured.v.vms) = 2

\* C9: once a dispatch that entered a client scope has returned, the session
\* is closed, whether the client operation returned or raised.
C9_SessionReleasedOnExit ==
    \A c \in Calls :
        (pc[c] = "done" /\ EnteredScope(c)) => session = "closed"

C9_Witness ==
    \E c \in Calls :
        /\ pc[c] = "done"
        /\ EnteredScope(c)
        /\ remote[c].kind = "transport"
        /\ fault[c] # NoFault
        /\ session = "closed"

\* C10: a dispatch issues at most one HTTP request and never repeats one:
\* the requests issued never outnumber the dispatches started.
C10_AtMostOneRequest ==
    /\ httpCount <= dispatchCount
    /\ \A c \in Calls : Len(sent[c]) <= 1

C10_Witness ==
    \E c \in Calls :
        /\ pc[c] = "done"
        /\ call[c].name = "power_vm"
        /\ remote[c].kind = "transport"
        /\ Len(sent[c]) = 1
        /\ httpCount = dispatchCount

\* the slot the next dispatch takes
Dispatching(c) == Free(c) /\ \A d \in Calls : d < c => ~Free(d)

\* a call that is turned down with nothing sent: a name outside the catalog,
\* a required argument missing, or a power_vm action outside the six tokens
RejectedLocally(name, arguments) ==
    \/ name \notin KnownTools
    \/ name = "get_vm_info" /\ arguments.vm_id.t = "missing"
    \/ /\ name = "power_vm"
       /\ \/ arguments.vm_id.t = "missing"
          \/ arguments.action.t = "missing"
          \/ arguments.action.t = "str" /\ arguments.action.v \notin ValidActions

\* C11: a dispatch rejected before any network call (unknown tool name,
\* missing required argument, power_vm action outside the six tokens)
\* neither creates the module-level client nor opens or closes its session:
\* the step leaves vmware_client and session as they were.
C11_RejectedLeavesClientUnchanged ==
    [][\A c \in Calls :
          (Dispatching(c) /\ dispatchCount' = dispatchCount + 1
              /\ RejectedLocally(call'[c].name, call'[c].arguments)) =>
                 /\ vmware_client' = vmware_client
                 /\ session' = session]_vars

====
